---- MODULE Spec2Model ----
(***************************************************************************)
(* PiePay offer service: POST /offer (createOffers) normalises a vendor    *)
(* payload into Offer documents and inserts the new ones; GET              *)
(* /highest-discount (getHighestDiscount) scores the stored documents.     *)
(*                                                                         *)
(* JavaScript values: an optional value (a field that may be undefined) is *)
(* the empty tuple when absent and a one-element tuple when present.  A    *)
(* string the code parses is a tuple of one-character strings.  Amounts    *)
(* are integers; the inputs are multiples of 100 so that every division    *)
(* by 100 the code performs is exact.                                      *)
(***************************************************************************)
EXTENDS Integers, Sequences, FiniteSets

\* store: the Offer collection, in insertion order. pc, req, resp: where each
\* request handler stands, its request and its response. noOfOffersIdentified,
\* batch (newOffersToCreate), inserted (documents insertMany has written) and
\* applicableOffers: the handler's locals. first: for a body posted twice in a
\* row, the outcome of the first call (a history variable).
VARIABLES store, pc, req, noOfOffersIdentified, batch, inserted, applicableOffers,
          resp, first

vars == <<store, pc, req, noOfOffersIdentified, batch, inserted, applicableOffers,
          resp, first>>

\* ------------------------------------------------------------------ values

Absent == <<>>
Some(v) == <<v>>
Has(x) == x # <<>>
Val(x) == x[1]

Max2(a, b) == IF a >= b THEN a ELSE b

Range(s) == {s[i] : i \in DOMAIN s}

\* ------------------------------------------------------------------ text

Digits == {"0", "1", "2", "3", "4", "5", "6", "7", "8", "9"}

DigitValue(c) ==
    CASE c = "0" -> 0 [] c = "1" -> 1 [] c = "2" -> 2 [] c = "3" -> 3
      [] c = "4" -> 4 [] c = "5" -> 5 [] c = "6" -> 6 [] c = "7" -> 7
      [] c = "8" -> 8 [] c = "9" -> 9

\* parseInt(ds, 10) of a run of decimal digits.
RECURSIVE ParseInt(_)
ParseInt(ds) ==
    IF ds = <<>> THEN 0
    ELSE ParseInt(SubSeq(ds, 1, Len(ds) - 1)) * 10 + DigitValue(ds[Len(ds)])

PercentOff == <<"%", " ", "o", "f", "f">>

\* The end of the run of digits that starts at i (\d+ is greedy, and what
\* follows it in the pattern is not a digit).
RunEnd(s, i) ==
    CHOOSE j \in i..Len(s) :
        /\ \A k \in i..j : s[k] \in Digits
        /\ (j = Len(s) \/ s[j + 1] \notin Digits)

\* /(\d+)% off/ matches with the group starting at i.
MatchesAt(s, i) ==
    /\ s[i] \in Digits
    /\ RunEnd(s, i) + Len(PercentOff) <= Len(s)
    /\ SubSeq(s, RunEnd(s, i) + 1, RunEnd(s, i) + Len(PercentOff)) = PercentOff

parseSummaryForPercentage(summary) ==
    LET starts == {i \in DOMAIN summary : MatchesAt(summary, i)}
    IN  IF starts = {} THEN 0
        ELSE LET i == CHOOSE m \in starts : \A n \in starts : m <= n
             IN  ParseInt(SubSeq(summary, i, RunEnd(summary, i)))

\* Number(amountToPay) of a query-string value: Absent is NaN.
ToNumber(s) ==
    IF ~Has(s) THEN Absent
    ELSE IF \A i \in DOMAIN Val(s) : Val(s)[i] \in Digits
         THEN Some(ParseInt(Val(s)))
         ELSE Absent

\* ------------------------------------------------------------------ createOffers: normalisation

FullInterestWaiver == "EMI_FULL_INTEREST_WAIVER"

\* flipkartOfferApiResponse.RESPONSE || flipkartOfferApiResponse
ApiData(response) ==
    IF Has(response.RESPONSE) THEN Val(response.RESPONSE) ELSE response

\* The entries of every section whose `offers` is an array, in iteration order.
RECURSIVE SectionOffers(_)
SectionOffers(sections) ==
    IF sections = <<>> THEN <<>>
    ELSE (IF Has(Head(sections).offers) THEN Val(Head(sections).offers) ELSE <<>>)
         \o SectionOffers(Tail(sections))

\* contributorsMap: adjustment_id -> contributors, the last entry winning.
ContributorsMap(apiData) ==
    LET offers == SectionOffers(IF Has(apiData.offer_sections)
                                THEN Val(apiData.offer_sections) ELSE <<>>)
        Sets(id) == {i \in DOMAIN offers :
                        /\ offers[i].adjustment_id = id
                        /\ id # ""
                        /\ Has(offers[i].contributors)}
        Keys == {offers[i].adjustment_id : i \in DOMAIN offers}
    IN  [id \in {k \in Keys : Sets(k) # {}} |->
            Val(offers[CHOOSE i \in Sets(id) : \A j \in Sets(id) : j <= i].contributors)]

\* apiData.adjustment_list || apiData.options?.[0]?.adjustments?.adjustment_list || []
\* (an empty array is truthy).
AdjustmentList(apiData) ==
    IF Has(apiData.adjustment_list) THEN Val(apiData.adjustment_list)
    ELSE IF /\ Has(apiData.options)
            /\ Val(apiData.options) # <<>>
            /\ Has(Val(apiData.options)[1].adjustments)
            /\ Has(Val(Val(apiData.options)[1].adjustments).adjustment_list)
         THEN Val(Val(Val(apiData.options)[1].adjustments).adjustment_list)
         ELSE <<>>

\* The first filter: offer details present and not a full interest waiver.
IsApplicableNoSubTypeCheck(adj) == Has(adj.offer_details)

IsApplicable(adj) ==
    /\ Has(adj.offer_details)
    /\ Val(adj.offer_details).adjustment_sub_type # FullInterestWaiver

RECURSIVE FilterApplicable(_)
FilterApplicable(adjs) ==
    IF adjs = <<>> THEN <<>>
    ELSE (IF IsApplicable(Head(adjs)) THEN <<Val(Head(adjs).offer_details)>> ELSE <<>>)
         \o FilterApplicable(Tail(adjs))

\* (details.offer_txn_limits?.<field> || 0) / 100
MinorToMajor(limit) == (IF Has(limit) THEN Val(limit) ELSE 0) \div 100

MinTrxnValue(details) ==
    MinorToMajor(IF Has(details.offer_txn_limits)
                 THEN Val(details.offer_txn_limits).min_txn_value ELSE Absent)

MaxDiscount(details) ==
    MinorToMajor(IF Has(details.offer_txn_limits)
                 THEN Val(details.offer_txn_limits).max_discount_per_txn ELSE Absent)

\* contributors.payment_instrument.map(...): one entry per instrument, each
\* with the contributor's whole bank list.
PaymentInstruments(contributors) ==
    [i \in DOMAIN Val(contributors.payment_instrument) |->
        [paymentInstrument |-> Val(contributors.payment_instrument)[i],
         banks |-> IF Has(contributors.banks) THEN Val(contributors.banks) ELSE <<>>]]

BuildOffer(details, instruments) ==
    [adjustmentId |-> details.adjustment_id,
     title |-> details.title,
     description |-> details.summary,
     type |-> details.adjustment_type,
     paymentInstruments |-> instruments,
     minTrxnValue |-> MinTrxnValue(details),
     maxDiscount |-> MaxDiscount(details),
     discountPercentage |-> IF Has(details.summary)
                            THEN parseSummaryForPercentage(Val(details.summary))
                            ELSE 0]

\* The map callback throws a TypeError: summary.match on an undefined summary,
\* or .map on an undefined payment_instrument. It is reached only when the
\* contributors were found.
MapThrows(details, cmap) ==
    /\ details.adjustment_id \in DOMAIN cmap
    /\ \/ ~Has(details.summary)
       \/ ~Has(cmap[details.adjustment_id].payment_instrument)

\* A faulty callback that keeps an adjustment without contributors, with no
\* payment instruments.
MapAdjustmentKeepUnmatched(details, cmap) ==
    IF details.adjustment_id \notin DOMAIN cmap
    THEN Some(BuildOffer(details, <<>>))
    ELSE Some(BuildOffer(details, PaymentInstruments(cmap[details.adjustment_id])))

\* The map callback when it does not throw: null (Absent) or the offer.
MapAdjustment(details, cmap) ==
    IF details.adjustment_id \notin DOMAIN cmap
    THEN Absent
    ELSE Some(BuildOffer(details, PaymentInstruments(cmap[details.adjustment_id])))

RECURSIVE MapAll(_, _)
MapAll(detailsSeq, cmap) ==
    IF detailsSeq = <<>> THEN <<>>
    ELSE MapAdjustment(Head(detailsSeq), cmap) \o MapAll(Tail(detailsSeq), cmap)

\* offersToProcess, or the TypeError the chain ends in.
Normalize(response) ==
    LET apiData == ApiData(response)
        cmap == ContributorsMap(apiData)
        applicable == FilterApplicable(AdjustmentList(apiData))
        threw == \E i \in DOMAIN applicable : MapThrows(applicable[i], cmap)
    IN  [threw |-> threw,
         offersToProcess |-> IF threw THEN <<>> ELSE MapAll(applicable, cmap)]

\* ------------------------------------------------------------------ the Offer collection

Ids(offers) == {offers[i].adjustmentId : i \in DOMAIN offers}

\* Offer.find({ adjustmentId: { $in: adjustmentIds } }) and the ids found.
ExistingIds(st, adjustmentIds) == Ids(st) \cap adjustmentIds

\* A faulty filter that keeps every candidate.
NewOffersToCreateUnfiltered(offersToProcess, existingIds) == offersToProcess

RECURSIVE NewOffersToCreate(_, _)
NewOffersToCreate(offersToProcess, existingIds) ==
    IF offersToProcess = <<>> THEN <<>>
    ELSE (IF Head(offersToProcess).adjustmentId \in existingIds
          THEN <<>> ELSE <<Head(offersToProcess)>>)
         \o NewOffersToCreate(Tail(offersToProcess), existingIds)

\* Schema validation of a document: title and description are required
\* (adjustmentId and type are always set by the time a document is built).
IsValid(doc) ==
    /\ Has(doc.title) /\ Val(doc.title) # ""
    /\ Has(doc.description) /\ Val(doc.description) # <<>>

\* The unique index on adjustmentId rejects the document (E11000).
DuplicateKeyNoIndex(st, doc) == FALSE

DuplicateKey(st, doc) == doc.adjustmentId \in Ids(st)

\* A faulty write that replaces the stored document of the same adjustmentId.
InsertOneUpsert(st, doc) ==
    [rejected |-> FALSE,
     store |-> IF doc.adjustmentId \in Ids(st)
               THEN [i \in DOMAIN st |->
                        IF st[i].adjustmentId = doc.adjustmentId THEN doc ELSE st[i]]
               ELSE Append(st, doc)]

\* The write of one document of an insertMany batch.
InsertOne(st, doc) ==
    [rejected |-> DuplicateKey(st, doc),
     store |-> IF DuplicateKey(st, doc) THEN st ELSE Append(st, doc)]

\* ------------------------------------------------------------------ getHighestDiscount

Truthy(s) == Has(s) /\ Val(s) # ""

\* The Mongo query without the minTrxnValue condition.
MatchesNoMinimum(offer, amount, bankName, paymentInstrument) ==
    /\ \E i \in DOMAIN offer.paymentInstruments :
          bankName \in Range(offer.paymentInstruments[i].banks)
    /\ (Truthy(paymentInstrument) =>
          \E i \in DOMAIN offer.paymentInstruments :
             offer.paymentInstruments[i].paymentInstrument = Val(paymentInstrument))

\* The Mongo query: 'paymentInstruments.banks': bankName,
\* minTrxnValue: { $lte: amount } and, when given,
\* 'paymentInstruments.paymentInstrument': paymentInstrument.
Matches(offer, amount, bankName, paymentInstrument) ==
    /\ \E i \in DOMAIN offer.paymentInstruments :
          bankName \in Range(offer.paymentInstruments[i].banks)
    /\ offer.minTrxnValue <= amount
    /\ (Truthy(paymentInstrument) =>
          \E i \in DOMAIN offer.paymentInstruments :
             offer.paymentInstruments[i].paymentInstrument = Val(paymentInstrument))

RECURSIVE FindApplicable(_, _, _, _)
FindApplicable(st, amount, bankName, paymentInstrument) ==
    IF st = <<>> THEN <<>>
    ELSE (IF Matches(Head(st), amount, bankName, paymentInstrument)
          THEN <<Head(st)>> ELSE <<>>)
         \o FindApplicable(Tail(st), amount, bankName, paymentInstrument)

\* The reducer's discount of one offer, without the cap.
CurrentDiscountNoCap(offer, amount) ==
    IF offer.discountPercentage > 0
    THEN (amount * offer.discountPercentage) \div 100
    ELSE IF offer.maxDiscount > 0 THEN offer.maxDiscount ELSE 0

\* The reducer's discount of one offer.
CurrentDiscount(offer, amount) ==
    IF offer.discountPercentage > 0
    THEN LET currentDiscount == (amount * offer.discountPercentage) \div 100
         IN  IF offer.maxDiscount > 0 /\ currentDiscount > offer.maxDiscount
             THEN offer.maxDiscount
             ELSE currentDiscount
    ELSE IF offer.maxDiscount > 0 THEN offer.maxDiscount ELSE 0

\* applicableOffers.reduce((max, offer) => Math.max(max, currentDiscount), 0)
RECURSIVE Reduce(_, _, _)
Reduce(offers, amount, maxCalculatedDiscount) ==
    IF offers = <<>> THEN maxCalculatedDiscount
    ELSE Reduce(Tail(offers), amount,
                Max2(maxCalculatedDiscount, CurrentDiscount(Head(offers), amount)))

\* ------------------------------------------------------------------ requests

Procs == {"p1", "p2"}

NoRequest == [kind |-> "none", body |-> Absent, query |-> Absent, fresh |-> FALSE]

Response(status, identified, created, highest, message) ==
    [status |-> status,
     noOfOffersIdentified |-> identified,
     noOfNewOffersCreated |-> created,
     highestDiscountAmount |-> highest,
     message |-> message]

Init ==
    /\ store = <<>>
    /\ pc = [p \in Procs |-> "idle"]
    /\ req = [p \in Procs |-> NoRequest]
    /\ noOfOffersIdentified = [p \in Procs |-> 0]
    /\ batch = [p \in Procs |-> <<>>]
    /\ inserted = [p \in Procs |-> 0]
    /\ applicableOffers = [p \in Procs |-> <<>>]
    /\ resp = [p \in Procs |-> Absent]
    /\ first = [p \in Procs |-> Absent]

\* The store holds none of the adjustmentIds of the body's candidates.
IsFresh(body, st) ==
    /\ Has(body.flipkartOfferApiResponse)
    /\ ~Normalize(Val(body.flipkartOfferApiResponse)).threw
    /\ Ids(Normalize(Val(body.flipkartOfferApiResponse)).offersToProcess) \cap Ids(st) = {}

Respond(p, r) ==
    /\ pc' = [pc EXCEPT ![p] = "responded"]
    /\ resp' = [resp EXCEPT ![p] = Some(r)]

\* createOffers up to the insertMany call: the body check, the normalisation,
\* Offer.find and the validation of the batch. `fresh` records, for the
\* properties, whether the store held none of the candidates' ids.
HandleCreateOffers(p, body) ==
    /\ req' = [req EXCEPT ![p] =
                 [kind |-> "offer", body |-> Some(body), query |-> Absent,
                  fresh |-> IsFresh(body, store)]]
    /\ inserted' = [inserted EXCEPT ![p] = 0]
    /\ applicableOffers' = [applicableOffers EXCEPT ![p] = <<>>]
    /\ UNCHANGED store
    /\ IF ~Has(body.flipkartOfferApiResponse)
       THEN /\ Respond(p, Response(400, Absent, Absent, Absent, "Missing flipkartOfferApiResponse"))
            /\ batch' = [batch EXCEPT ![p] = <<>>]
            /\ noOfOffersIdentified' = [noOfOffersIdentified EXCEPT ![p] = 0]
       ELSE LET n == Normalize(Val(body.flipkartOfferApiResponse))
                offersToProcess == n.offersToProcess
                newOffersToCreate ==
                    NewOffersToCreate(offersToProcess,
                                      ExistingIds(store, Ids(offersToProcess)))
            IN  /\ noOfOffersIdentified' =
                       [noOfOffersIdentified EXCEPT ![p] = Len(offersToProcess)]
                /\ IF n.threw
                   THEN /\ Respond(p, Response(500, Absent, Absent, Absent, "TypeError"))
                        /\ batch' = [batch EXCEPT ![p] = <<>>]
                   ELSE IF Len(offersToProcess) = 0
                   THEN /\ Respond(p, Response(200, Some(0), Some(0), Absent, ""))
                        /\ batch' = [batch EXCEPT ![p] = <<>>]
                   ELSE IF newOffersToCreate = <<>>
                   THEN /\ Respond(p, Response(201, Some(Len(offersToProcess)), Some(0),
                                              Absent, ""))
                        /\ batch' = [batch EXCEPT ![p] = <<>>]
                   ELSE IF \E i \in DOMAIN newOffersToCreate :
                              ~IsValid(newOffersToCreate[i])
                   THEN /\ Respond(p, Response(500, Absent, Absent, Absent,
                                              "ValidationError"))
                        /\ batch' = [batch EXCEPT ![p] = newOffersToCreate]
                   ELSE /\ pc' = [pc EXCEPT ![p] = "inserting"]
                        /\ resp' = [resp EXCEPT ![p] = Absent]
                        /\ batch' = [batch EXCEPT ![p] = newOffersToCreate]

\* POST /offer arrives.
createOffers(p, body) ==
    /\ pc[p] = "idle"
    /\ HandleCreateOffers(p, body)
    /\ first' = [first EXCEPT ![p] = Absent]

\* The client posts the body of the call that just ended once more.
Resend(p) ==
    /\ pc[p] = "responded"
    /\ req[p].kind = "offer"
    /\ ~Has(first[p])
    /\ first' = [first EXCEPT ![p] = Some([resp |-> Val(resp[p]), fresh |-> req[p].fresh])]
    /\ HandleCreateOffers(p, Val(req[p].body))

\* Offer.insertMany writes the next document of the batch (ordered: it stops
\* at the first rejected document and the call throws), and the response
\* follows the last one.
InsertNext(p) ==
    /\ pc[p] = "inserting"
    /\ LET r == InsertOne(store, batch[p][inserted[p] + 1])
       IN  IF r.rejected
           THEN /\ Respond(p, Response(500, Absent, Absent, Absent, "E11000"))
                /\ UNCHANGED <<store, inserted>>
           ELSE /\ store' = r.store
                /\ inserted' = [inserted EXCEPT ![p] = @ + 1]
                /\ IF inserted[p] + 1 = Len(batch[p])
                   THEN Respond(p, Response(201, Some(noOfOffersIdentified[p]),
                                            Some(Len(batch[p])), Absent, ""))
                   ELSE UNCHANGED <<pc, resp>>
    /\ UNCHANGED <<req, noOfOffersIdentified, batch, applicableOffers, first>>

\* GET /highest-discount, start to end (one read of the collection).
getHighestDiscount(p, query) ==
    /\ pc[p] = "idle"
    /\ req' = [req EXCEPT ![p] =
                 [kind |-> "discount", body |-> Absent, query |-> Some(query),
                  fresh |-> FALSE]]
    /\ LET numericAmountToPay == ToNumber(query.amountToPay)
       IN  IF ~Has(numericAmountToPay) \/ ~Truthy(query.bankName)
           THEN /\ Respond(p, Response(400, Absent, Absent, Absent, "Invalid query parameters"))
                /\ UNCHANGED applicableOffers
           ELSE LET found == FindApplicable(store, Val(numericAmountToPay),
                                            Val(query.bankName), query.paymentInstrument)
                IN  /\ applicableOffers' = [applicableOffers EXCEPT ![p] = found]
                    /\ Respond(p, Response(200, Absent, Absent,
                                  Some(Reduce(found, Val(numericAmountToPay), 0)), ""))
    /\ UNCHANGED <<store, noOfOffersIdentified, batch, inserted, first>>

\* The handler has returned; its locals are gone.
Finish(p) ==
    /\ pc[p] = "responded"
    /\ pc' = [pc EXCEPT ![p] = "idle"]
    /\ req' = [req EXCEPT ![p] = NoRequest]
    /\ noOfOffersIdentified' = [noOfOffersIdentified EXCEPT ![p] = 0]
    /\ batch' = [batch EXCEPT ![p] = <<>>]
    /\ inserted' = [inserted EXCEPT ![p] = 0]
    /\ applicableOffers' = [applicableOffers EXCEPT ![p] = <<>>]
    /\ resp' = [resp EXCEPT ![p] = Absent]
    /\ first' = [first EXCEPT ![p] = Absent]
    /\ UNCHANGED store

\* ------------------------------------------------------------------ inputs

MaxAdj == 2
RaceMaxAdj == 2

SeqsUpTo(S, lo, hi) == UNION {[1..k -> S] : k \in lo..hi}

Summary5Off == <<"5", "%", " ", "o", "f", "f", " ", "u", "p">>
Summary10Off == <<"G", "e", "t", " ", "1", "0", "%", " ", "o", "f", "f">>
SummaryFlat == <<"F", "l", "a", "t", " ", "7", "5", "0">>
SummaryMalformed == <<"5", "%", "o", "f", "f">>

Limits(min, max) == Some([min_txn_value |-> min, max_discount_per_txn |-> max])

Adj(id, title, summary, subType, limits) ==
    [offer_details |-> Some([adjustment_id |-> id,
                             title |-> title,
                             summary |-> summary,
                             adjustment_type |-> "INSTANT_DISCOUNT",
                             adjustment_sub_type |-> subType,
                             offer_txn_limits |-> limits])]

AdjPercentCapped ==
    Adj("A1", Some("T1"), Some(Summary5Off), "PBO", Limits(Some(500000), Some(75000)))
AdjFlat ==
    Adj("A1", Some("T2"), Some(SummaryFlat), "PBO", Limits(Absent, Some(75000)))
AdjPercentUncapped ==
    Adj("A2", Some("T1"), Some(Summary10Off), "PBO", Absent)
AdjNoDiscount ==
    Adj("A2", Some("T2"), Some(SummaryMalformed), "PBO", Limits(Some(0), Absent))
AdjWaiver ==
    Adj("A1", Some("T1"), Some(Summary5Off), FullInterestWaiver,
        Limits(Some(500000), Some(75000)))
AdjNoDetails == [offer_details |-> Absent]
AdjNoSummary ==
    Adj("A2", Some("T1"), Absent, "PBO", Limits(Some(500000), Some(75000)))
AdjNoTitle ==
    Adj("A2", Absent, Some(Summary10Off), "PBO", Absent)

\* The adjustments every list up to MaxAdj is drawn from, and the lists that
\* carry the remaining ones.
Adjustments == {AdjPercentCapped, AdjFlat, AdjPercentUncapped, AdjWaiver, AdjNoSummary}

ExtraLists ==
    {<<AdjNoDiscount>>, <<AdjNoDetails>>, <<AdjNoTitle>>,
     <<AdjNoDetails, AdjPercentCapped>>, <<AdjPercentCapped, AdjNoTitle>>,
     <<AdjNoDiscount, AdjFlat>>}

RaceAdjustments == {AdjPercentCapped, AdjPercentUncapped}

Contributors(instruments, banks) == [payment_instrument |-> instruments, banks |-> banks]

Entry(id, contributors) == [adjustment_id |-> id, contributors |-> contributors]

Section(offers) == [offers |-> offers]

SectionsBoth ==
    <<Section(Some(<<Entry("A1", Some(Contributors(Some(<<"CREDIT", "DEBIT">>), Some(<<"IDFC">>)))),
                     Entry("A2", Some(Contributors(Some(<<"CREDIT">>), Some(<<"IDFC", "AXIS">>))))>>))>>

\* A section without an offers list, an entry without banks, an entry without
\* contributors.
SectionsPartial ==
    <<Section(Absent),
      Section(Some(<<Entry("A1", Some(Contributors(Some(<<"DEBIT">>), Absent))),
                     Entry("A2", Absent)>>))>>

\* An entry without payment_instrument, and an id entered twice.
SectionsOdd ==
    <<Section(Some(<<Entry("A1", Some(Contributors(Absent, Some(<<"IDFC">>)))),
                     Entry("A2", Some(Contributors(Some(<<"CREDIT">>), Some(<<"AXIS">>))))>>)),
      Section(Some(<<Entry("A2", Some(Contributors(Some(<<"DEBIT">>), Some(<<"AXIS">>))))>>))>>

SectionChoices == {SectionsBoth, SectionsPartial, SectionsOdd}

Data(sections, adjustmentList, options) ==
    [offer_sections |-> sections, adjustment_list |-> adjustmentList, options |-> options]

\* { flipkartOfferApiResponse: { RESPONSE: data } }
Wrapped(data) ==
    [flipkartOfferApiResponse |->
        Some([RESPONSE |-> Some(data), offer_sections |-> Absent,
              adjustment_list |-> Absent, options |-> Absent])]

\* { flipkartOfferApiResponse: data }
Direct(data) ==
    [flipkartOfferApiResponse |->
        Some([RESPONSE |-> Absent, offer_sections |-> data.offer_sections,
              adjustment_list |-> data.adjustment_list, options |-> data.options])]

Options(adjustmentList) ==
    Some(<<[adjustments |-> Some([adjustment_list |-> adjustmentList])]>>)

\* The other shapes of a body: no envelope field, the data unwrapped, the
\* adjustment list on the nested path or nowhere, no offer sections.
ShapeBodies ==
    LET list == <<AdjPercentCapped, AdjPercentUncapped>>
    IN  {[flipkartOfferApiResponse |-> Absent],
         Direct(Data(Some(SectionsBoth), Some(list), Absent)),
         Wrapped(Data(Some(SectionsBoth), Absent, Options(Some(list)))),
         Direct(Data(Some(SectionsBoth), Absent, Options(Some(list)))),
         Wrapped(Data(Some(SectionsBoth), Absent, Options(Absent))),
         Wrapped(Data(Some(SectionsBoth), Absent, Some(<<[adjustments |-> Absent]>>))),
         Wrapped(Data(Some(SectionsBoth), Absent, Some(<<>>))),
         Wrapped(Data(Some(SectionsBoth), Absent, Absent)),
         Wrapped(Data(Absent, Some(list), Absent))}

Bodies ==
    {Wrapped(Data(Some(s), Some(l), Absent)) :
        s \in SectionChoices, l \in SeqsUpTo(Adjustments, 0, MaxAdj) \cup ExtraLists}
    \cup ShapeBodies

\* Bodies over two ids, and one that carries the first id with other content.
RaceBodies ==
    {Wrapped(Data(Some(SectionsBoth), Some(l), Absent)) :
        l \in SeqsUpTo(RaceAdjustments, 1, RaceMaxAdj) \cup {<<AdjFlat>>}}

Query(amountToPay, bankName, paymentInstrument) ==
    [amountToPay |-> amountToPay, bankName |-> bankName,
     paymentInstrument |-> paymentInstrument]

AmountStrings ==
    {Absent, Some(<<"a", "b", "c">>), Some(<<>>), Some(<<"4", "0", "0", "0">>),
     Some(<<"1", "0", "0", "0", "0">>), Some(<<"2", "0", "0", "0", "0">>)}

Queries ==
    {Query(a, b, i) :
        a \in AmountStrings,
        b \in {Absent, Some("IDFC"), Some("AXIS"), Some("UNKNOWN")},
        i \in {Absent, Some(""), Some("CREDIT"), Some("DEBIT")}}

RaceQueries ==
    {Query(Some(<<"1", "0", "0", "0", "0">>), Some("IDFC"), i) :
        i \in {Absent, Some("CREDIT")}}

\* ------------------------------------------------------------------ specifications

\* Two requests in flight at a time, interleaved at every access to the store.
Next ==
    \E p \in Procs :
        \/ \E body \in RaceBodies : createOffers(p, body)
        \/ InsertNext(p)
        \/ \E query \in RaceQueries : getHighestDiscount(p, query)
        \/ Finish(p)

Spec == Init /\ [][Next]_vars

\* One request at a time, over every body and every query.
NextSeq ==
    \/ \E body \in Bodies : createOffers("p1", body)
    \/ Resend("p1")
    \/ InsertNext("p1")
    \/ \E query \in Queries : getHighestDiscount("p1", query)
    \/ Finish("p1")

SpecSeq == Init /\ [][NextSeq]_vars

\* ------------------------------------------------------------------ properties

OfferCall(p) == req[p].kind = "offer"
DiscountCall(p) == req[p].kind = "discount"
Responded(p) == pc[p] = "responded"

\* What the body of p's call holds.
BodyData(p) == ApiData(Val(Val(req[p].body).flipkartOfferApiResponse))
HasEnvelope(p) == Has(Val(req[p].body).flipkartOfferApiResponse)
Candidates(p) == Normalize(Val(Val(req[p].body).flipkartOfferApiResponse)).offersToProcess
Throws(p) == Normalize(Val(Val(req[p].body).flipkartOfferApiResponse)).threw

DistinctIds(offers) ==
    \A i, j \in DOMAIN offers : i # j => offers[i].adjustmentId # offers[j].adjustmentId

AllValid(offers) == \A i \in DOMAIN offers : IsValid(offers[i])

C2_UniqueAdjustmentId ==
    \A i, j \in DOMAIN store : i # j => store[i].adjustmentId # store[j].adjustmentId

\* Two calls with overlapping batches both passed the existence check, and the
\* index rejected the document of one of them.
C2_Witness ==
    \E p, q \in Procs :
        /\ p # q
        /\ OfferCall(p) /\ OfferCall(q)
        /\ Responded(p) /\ Val(resp[p]).message = "E11000"
        /\ DistinctIds(batch[p]) /\ DistinctIds(batch[q])
        /\ Ids(batch[p]) \cap Ids(batch[q]) # {}
        /\ Len(store) = 2

\* p's insertMany met a document whose adjustmentId is already stored.
HitDuplicate(p) ==
    /\ Responded(p) /\ OfferCall(p)
    /\ AllValid(batch[p])
    /\ inserted[p] < Len(batch[p])
    /\ batch[p][inserted[p] + 1].adjustmentId \in Ids(store)

\* C3: a call whose insert meets a document created meanwhile by a concurrent
\* call does not end in a server error, and the other documents of its batch
\* are stored.
C3_DuplicateKeyTolerated ==
    \A p \in Procs :
        (HitDuplicate(p) /\ DistinctIds(batch[p]))
        => /\ Val(resp[p]).status # 500
           /\ Ids(batch[p]) \subseteq Ids(store)

\* C4: a call that reports created = k has inserted k documents, and a call
\* that ends in a server error has inserted none.
C4_Accounting ==
    \A p \in Procs :
        (Responded(p) /\ OfferCall(p))
        => /\ Val(resp[p]).status = 500 => inserted[p] = 0
           /\ Has(Val(resp[p]).noOfNewOffersCreated)
                 => Val(Val(resp[p]).noOfNewOffersCreated) = inserted[p]

\* Some offer section of the data holds an entry with this adjustment_id and
\* its contributors.
HasContributor(data, id) ==
    /\ Has(data.offer_sections)
    /\ \E s \in Range(Val(data.offer_sections)) :
          /\ Has(s.offers)
          /\ \E e \in Range(Val(s.offers)) : e.adjustment_id = id /\ Has(e.contributors)

\* C5: every document a call has inserted carries an adjustment_id that has a
\* contributor entry in the body of that call.
C5_Correlation ==
    \A p \in Procs :
        OfferCall(p)
        => \A k \in 1..inserted[p] : HasContributor(BodyData(p), batch[p][k].adjustmentId)

\* A body with an adjustment that has no contributor, beside one that has, was
\* ingested and a document created.
C5_Witness ==
    \E p \in Procs :
        /\ Responded(p) /\ OfferCall(p) /\ HasEnvelope(p)
        /\ Val(resp[p]).status = 201 /\ inserted[p] >= 1
        /\ \E a \in Range(AdjustmentList(BodyData(p))) :
              /\ IsApplicable(a)
              /\ ~HasContributor(BodyData(p), Val(a.offer_details).adjustment_id)

\* The adjustments of p's body that have offer details and are no waiver.
NonWaiver(p) ==
    LET adjs == AdjustmentList(BodyData(p))
    IN  {i \in DOMAIN adjs :
            /\ Has(adjs[i].offer_details)
            /\ Val(adjs[i].offer_details).adjustment_sub_type # FullInterestWaiver}

\* C6: the waiver adjustments are not among the identified ones, and every
\* inserted document was built from an adjustment that is no waiver.
C6_Exclusion ==
    \A p \in Procs :
        (OfferCall(p) /\ HasEnvelope(p))
        => LET adjs == AdjustmentList(BodyData(p))
           IN  /\ noOfOffersIdentified[p] <= Cardinality(NonWaiver(p))
               /\ (Has(resp[p]) /\ Has(Val(resp[p]).noOfOffersIdentified))
                     => Val(Val(resp[p]).noOfOffersIdentified) <= Cardinality(NonWaiver(p))
               /\ \A k \in 1..inserted[p] :
                     \E i \in NonWaiver(p) :
                        /\ Val(adjs[i].offer_details).adjustment_id = batch[p][k].adjustmentId
                        /\ Val(adjs[i].offer_details).title = batch[p][k].title

\* A body with a waiver adjustment that has contributors, beside another
\* adjustment, was ingested and one document created.
C6_Witness ==
    \E p \in Procs :
        /\ Responded(p) /\ OfferCall(p) /\ HasEnvelope(p)
        /\ Val(resp[p]).noOfOffersIdentified = Some(1)
        /\ Val(resp[p]).noOfNewOffersCreated = Some(1)
        /\ \E a \in Range(AdjustmentList(BodyData(p))) :
              /\ Has(a.offer_details)
              /\ Val(a.offer_details).adjustment_sub_type = FullInterestWaiver
              /\ HasContributor(BodyData(p), Val(a.offer_details).adjustment_id)

Min2(a, b) == IF a <= b THEN a ELSE b

ClaimedDiscount(offer, amount) ==
    CASE offer.discountPercentage > 0 /\ offer.maxDiscount > 0 ->
            Min2((amount * offer.discountPercentage) \div 100, offer.maxDiscount)
      [] offer.discountPercentage > 0 /\ offer.maxDiscount = 0 ->
            (amount * offer.discountPercentage) \div 100
      [] offer.discountPercentage = 0 /\ offer.maxDiscount > 0 -> offer.maxDiscount
      [] OTHER -> 0

QueryOf(p) == Val(req[p].query)
AmountOf(p) == Val(ToNumber(QueryOf(p).amountToPay))

\* C8: the amount returned is the greatest claimed discount of the selected
\* offers, 0 with status 200 when none is selected, and never negative.
C8_Scoring ==
    \A p \in Procs :
        (Responded(p) /\ DiscountCall(p))
        => IF Has(ToNumber(QueryOf(p).amountToPay)) /\ Truthy(QueryOf(p).bankName)
           THEN LET ds == {ClaimedDiscount(applicableOffers[p][i], AmountOf(p)) :
                              i \in DOMAIN applicableOffers[p]}
                    best == IF ds = {} THEN 0
                            ELSE CHOOSE d \in ds : \A e \in ds : e <= d
                IN  /\ Val(resp[p]).status = 200
                    /\ Val(resp[p]).highestDiscountAmount = Some(best)
                    /\ best >= 0
           ELSE Val(resp[p]).status = 400

\* The percentage of a selected offer exceeded its cap and the cap was returned.
C8_Witness ==
    \E p \in Procs :
        /\ Responded(p) /\ DiscountCall(p)
        /\ Val(resp[p]).status = 200
        /\ \E o \in Range(applicableOffers[p]) :
              /\ o.discountPercentage > 0 /\ o.maxDiscount > 0
              /\ (AmountOf(p) * o.discountPercentage) \div 100 > o.maxDiscount
              /\ Val(resp[p]).highestDiscountAmount = Some(o.maxDiscount)

RECURSIVE WithinMinimum(_, _)
WithinMinimum(st, amount) ==
    IF st = <<>> THEN <<>>
    ELSE (IF Head(st).minTrxnValue <= amount THEN <<Head(st)>> ELSE <<>>)
         \o WithinMinimum(Tail(st), amount)

\* C9: every selected offer has the bank in one of its entries, a minimum not
\* above the amount and, when an instrument is given, an entry of that
\* instrument; and the amount returned is the one the store without the offers
\* whose minimum exceeds the amount gives.
C9_Selection ==
    \A p \in Procs :
        (Responded(p) /\ DiscountCall(p) /\ Val(resp[p]).status = 200)
        => /\ \A o \in Range(applicableOffers[p]) :
                 /\ \E e \in Range(o.paymentInstruments) :
                       Val(QueryOf(p).bankName) \in Range(e.banks)
                 /\ o.minTrxnValue <= AmountOf(p)
                 /\ Truthy(QueryOf(p).paymentInstrument)
                       => \E e \in Range(o.paymentInstruments) :
                             e.paymentInstrument = Val(QueryOf(p).paymentInstrument)
           /\ Val(resp[p]).highestDiscountAmount =
                 Some(Reduce(FindApplicable(WithinMinimum(store, AmountOf(p)), AmountOf(p),
                                            Val(QueryOf(p).bankName),
                                            QueryOf(p).paymentInstrument),
                             AmountOf(p), 0))

\* A stored offer of the bank asked for was left out because its minimum
\* exceeds the amount.
C9_Witness ==
    \E p \in Procs :
        /\ Responded(p) /\ DiscountCall(p) /\ Val(resp[p]).status = 200
        /\ \E d \in Range(store) :
              /\ d.minTrxnValue > AmountOf(p)
              /\ MatchesNoMinimum(d, AmountOf(p), Val(QueryOf(p).bankName),
                                  QueryOf(p).paymentInstrument)
              /\ d \notin Range(applicableOffers[p])

\* C10: no call ends in a server error because the normalisation threw on a
\* missing optional field.
C10_NeverThrows ==
    \A p \in Procs :
        (Responded(p) /\ OfferCall(p)) => Val(resp[p]).message # "TypeError"

====
